---- MODULE Spec2Model ----
(***************************************************************************)
(* A model of src/kanboard.py: the Kanboard JSON-RPC client.               *)
(*                                                                         *)
(* Python strings that the code takes apart (attribute names, wire method  *)
(* names) are sequences of one-character strings.  Python values that the  *)
(* code only passes around (JSON values, messages) are tagged records.     *)
(***************************************************************************)
EXTENDS Integers, Sequences, FiniteSets, TLC

VARIABLES
    cfg,        \* the Client object's attributes, set by __init__
    calls,      \* one record per invocation of a client attribute
    submitted,  \* call ids in the order the attributes were invoked
    completed,  \* call ids in the order their outcome reached the caller
    snake_str,  \* argument of a direct call of Client._to_camel_case
    camel,      \* what that call returned
    nameStep    \* "input", "converted" or "reconverted"

vars == <<cfg, calls, submitted, completed, snake_str, camel, nameStep>>

(***************************************************************************)
(* Bounds of the model.                                                    *)
(***************************************************************************)
MaxCalls == 2       \* concurrent invocations on one client
MaxNameLen == 4     \* length of the identifiers given to _to_camel_case

(***************************************************************************)
(* Characters and str methods.                                             *)
(***************************************************************************)
Lowers == <<"a","b","c","d","e","f","g","h","i","j","k","l","m",
            "n","o","p","q","r","s","t","u","v","w","x","y","z">>
Uppers == <<"A","B","C","D","E","F","G","H","I","J","K","L","M",
            "N","O","P","Q","R","S","T","U","V","W","X","Y","Z">>

IsLower(ch) == \E i \in DOMAIN Lowers : Lowers[i] = ch
IsUpper(ch) == \E i \in DOMAIN Uppers : Uppers[i] = ch
IsCased(ch) == IsLower(ch) \/ IsUpper(ch)

ToUpper(ch) ==
    IF IsLower(ch) THEN Uppers[CHOOSE i \in DOMAIN Lowers : Lowers[i] = ch] ELSE ch

ToLower(ch) ==
    IF IsUpper(ch) THEN Lowers[CHOOSE i \in DOMAIN Uppers : Uppers[i] = ch] ELSE ch

\* str.title(): a cased character that follows an uncased one (or starts the
\* string) is upper-cased, every other cased character is lower-cased.
RECURSIVE TitleFrom(_, _, _)
TitleFrom(s, i, prevCased) ==
    IF i > Len(s) THEN <<>>
    ELSE LET ch == IF prevCased THEN ToLower(s[i]) ELSE ToUpper(s[i])
         IN  <<ch>> \o TitleFrom(s, i + 1, IsCased(ch))

Title(s) == TitleFrom(s, 1, FALSE)

\* str.split(sep) for a one-character separator: always at least one component.
RECURSIVE SplitFrom(_, _, _, _)
SplitFrom(s, sep, i, cur) ==
    IF i > Len(s) THEN <<cur>>
    ELSE IF s[i] = sep THEN <<cur>> \o SplitFrom(s, sep, i + 1, <<>>)
    ELSE SplitFrom(s, sep, i + 1, Append(cur, s[i]))

Split(s, sep) == SplitFrom(s, sep, 1, <<>>)

\* "".join(parts)
RECURSIVE Join(_)
Join(parts) == IF parts = <<>> THEN <<>> ELSE Head(parts) \o Join(Tail(parts))

\* str.endswith(suffix)
EndsWith(s, suffix) ==
    /\ Len(s) >= Len(suffix)
    /\ SubSeq(s, Len(s) - Len(suffix) + 1, Len(s)) = suffix

(***************************************************************************)
(* Module constants and the method-name resolver.                          *)
(***************************************************************************)
DEFAULT_AUTH_HEADER == "Authorization"
ASYNC_FUNCNAME_MARKER == <<"_","a","s","y","n","c">>

is_async_method_name(funcname) == EndsWith(funcname, ASYNC_FUNCNAME_MARKER)

get_funcname_from_async_name(funcname) ==
    SubSeq(funcname, 1, Len(funcname) - Len(ASYNC_FUNCNAME_MARKER))

\* A faulty variant of _to_camel_case: every segment is title-cased, the first included.
to_camel_case_titles_all(snake) ==
    LET components == Split(snake, "_")
    IN  Join([i \in DOMAIN components |-> Title(components[i])])

\* Client._to_camel_case
_to_camel_case(snake) ==
    LET components == Split(snake, "_")
        rest == Tail(components)
    IN  components[1] \o Join([i \in DOMAIN rest |-> Title(rest[i])])

(***************************************************************************)
(* Python and JSON values.  json.loads maps JSON null to None, so both are *)
(* PyNone.                                                                 *)
(***************************************************************************)
PyNone == [t |-> "null"]
PyNum(n) == [t |-> "number", v |-> n]
PyStr(s) == [t |-> "string", v |-> s]
PyFStr(prefix, detail) == [t |-> "string", v |-> prefix, rest |-> detail]
PyList(elems) == [t |-> "array", v |-> elems]
PyDict(members) == [t |-> "object", v |-> members]

\* dict.get(key): the member, or None
DictGet(d, key) == IF key \in DOMAIN d.v THEN d.v[key] ELSE PyNone

\* How a call ends: it returns a value or raises an exception.
NoOutcome == [kind |-> "none", exc |-> "", value |-> PyNone]
Return(value) == [kind |-> "return", exc |-> "", value |-> value]
Raise(exc, message) == [kind |-> "raise", exc |-> exc, value |-> message]

(***************************************************************************)
(* Response bytes.  A response is a number of bytes that are not valid     *)
(* UTF-8 (decode(errors="ignore") drops them) around a text, which is      *)
(* empty, the serialisation of a JSON value, or not JSON at all.           *)
(***************************************************************************)
EmptyText == [kind |-> "empty", v |-> PyNone]
GarbageText == [kind |-> "garbage", v |-> PyNone]
JsonText(value) == [kind |-> "json", v |-> value]

Bytes(invalid, text) == [invalid |-> invalid, text |-> text]

JsonDocs ==
    { PyDict([result |-> PyNum(42)]),
      PyDict([result |-> PyNone]),
      PyDict([result |-> PyStr("ok")]),
      PyDict([result |-> PyDict([id |-> PyNum(1)])]),
      PyDict([result |-> PyList(<<PyNum(1)>>)]),
      PyDict(<<>>),
      PyDict([error |-> PyDict([message |-> PyStr("Not found"), code |-> PyNum(1)])]),
      PyDict([error |-> PyDict([message |-> PyStr("Not found")]), result |-> PyNum(42)]),
      PyDict([error |-> PyDict([code |-> PyNum(1)])]),
      PyDict([error |-> PyStr("boom")]),
      PyDict([error |-> PyNone]),
      PyNum(42),
      PyNone,
      PyStr("an error"),
      PyStr("ok"),
      PyList(<<>>),
      PyList(<<PyStr("error")>>) }

Bodies ==
    {Bytes(0, EmptyText), Bytes(0, GarbageText)}
        \cup {Bytes(0, JsonText(d)) : d \in JsonDocs}
        \cup {Bytes(1, EmptyText), Bytes(1, JsonText(PyDict([result |-> PyNum(42)])))}

\* bytes are falsy when there are none
IsEmptyBytes(response) == response.invalid = 0 /\ response.text.kind = "empty"

\* bytes.decode(errors="ignore")
DecodeIgnore(response) == response.text

\* json.loads(text): the value, or a ValueError (JSONDecodeError)
JsonLoads(text) ==
    IF text.kind = "json"
    THEN [ok |-> TRUE, v |-> text.v, err |-> ""]
    ELSE [ok |-> FALSE, v |-> PyNone,
          err |-> "Expecting value: line 1 column 1 (char 0)"]

\* The strings of the model that have "error" as a substring.
HasErrorSubstring(s) == s \in {"error", "an error"}

\* `"error" in body`: key of a dict, element of a list, substring of a str;
\* int, bool and None are not iterable.
InSupported(body) == body.t \in {"object", "array", "string"}
ErrorIn(body) ==
    CASE body.t = "object" -> "error" \in DOMAIN body.v
      [] body.t = "array" -> \E i \in DOMAIN body.v : body.v[i] = PyStr("error")
      [] body.t = "string" -> HasErrorSubstring(body.v)
      [] OTHER -> FALSE

\* the attribute lookup `.get` succeeds on a dict only
HasGet(value) == value.t = "object"

NoGet(value) == Raise("AttributeError", PyFStr(value.t, " object has no attribute 'get'"))

\* Client._parse_response.  Only ValueError is caught; ClientError is not a
\* ValueError, and neither are TypeError and AttributeError.
_parse_response(response) ==
    IF IsEmptyBytes(response)
    THEN Raise("ClientError", PyStr("Empty response from server"))
    ELSE LET loaded == JsonLoads(DecodeIgnore(response))
             body == loaded.v
         IN  IF ~loaded.ok
             THEN Raise("ClientError", PyFStr("Failed to parse JSON response: ", loaded.err))
             ELSE IF ~InSupported(body)
             THEN Raise("TypeError", PyFStr(body.t, " is not iterable"))
             ELSE IF ErrorIn(body)
             THEN IF ~HasGet(body) THEN NoGet(body)
                  ELSE LET error == DictGet(body, "error")
                       IN  IF ~HasGet(error) THEN NoGet(error)
                           ELSE Raise("ClientError", DictGet(error, "message"))
             ELSE IF ~HasGet(body) THEN NoGet(body)
             ELSE Return(DictGet(body, "result"))

(***************************************************************************)
(* Client.__init__: the client's attributes.                               *)
(***************************************************************************)
Urls == {"https://kanboard.example/jsonrpc.php"}
Usernames == {"jsonrpc", "admin"}
Passwords == {"token", "secret"}
AuthHeaderNames ==
    {"Authorization", "X-API-Auth", "Content-Type", "content-type", "User-Agent"}
UserAgents == {"Kanboard Python API Client", "custom-agent"}
CaFiles == {"None", "ca.pem", "missing.pem"}
LoopArgs == {"None", "supplied loop"}

\* The CA files that ssl.create_default_context can load.
LoadableCaFiles == {"ca.pem"}

\* Client.__init__.  self._event_loop is assigned only when no loop is given;
\* "unset" says the instance has no such attribute.
__init__(url, username, password, auth_header, cafile, insecure, ignore_hostname_verification, user_agent, loop) ==
    [url |-> url, username |-> username, password |-> password,
     auth_header |-> auth_header, cafile |-> cafile, insecure |-> insecure,
     user_agent |-> user_agent,
     ignore_hostname_verification |-> ignore_hostname_verification,
     event_loop |-> IF loop = "None" THEN "ambient loop" ELSE "unset"]

(***************************************************************************)
(* Client.execute and Client._do_request.                                  *)
(***************************************************************************)
\* Header values are strings built from pieces.
Plain(s) == [enc |-> "plain", s |-> <<s>>]
\* base64.b64encode("{}:{}".format(username, password).encode()).decode()
B64Credentials(username, password) ==
    [enc |-> "base64", s |-> <<username, ":", password>>]
\* prefix + value: concatenating the empty string changes nothing
Concat(prefix, value) == IF prefix = "" THEN <<value>> ELSE <<Plain(prefix), value>>

\* A dict display {k1: v1, k2: v2, k3: v3}: a later equal key replaces an earlier one.
DictDisplay3(k1, v1, k2, v2, k3, v3) == (k3 :> v3) @@ (k2 :> v2) @@ (k1 :> v1)

\* str.capitalize() of the header names of the model, as urllib's
\* Request.add_header applies it to every key of `headers`.
Capitalize(name) ==
    CASE name = "Authorization" -> "Authorization"
      [] name = "X-API-Auth" -> "X-api-auth"
      [] name \in {"Content-Type", "content-type"} -> "Content-type"
      [] name = "User-Agent" -> "User-agent"

\* The keys of a dict in insertion order, for the dicts DictDisplay3 builds.
KeysInOrder(k1, k2, k3) ==
    LET s1 == <<k1>>
        s2 == IF k2 = k1 THEN s1 ELSE Append(s1, k2)
    IN  IF k3 \in {k1, k2} THEN s2 ELSE Append(s2, k3)

\* http.Request(url, headers=headers, ...): add_header(key, value) for every
\* item in order; a later key with the same capitalisation replaces the earlier.
RECURSIVE AddHeaders(_, _, _)
AddHeaders(acc, headers, keys) ==
    IF keys = <<>> THEN acc
    ELSE AddHeaders((Capitalize(Head(keys)) :> headers[Head(keys)]) @@ acc,
                    headers, Tail(keys))

\* The headers dict of execute, as the Request carries it.
RequestHeaders(c) ==
    LET auth_header_prefix == IF c.auth_header = DEFAULT_AUTH_HEADER THEN "Basic " ELSE ""
        credentials == B64Credentials(c.username, c.password)
        headers == DictDisplay3(c.auth_header, Concat(auth_header_prefix, credentials),
                                "Content-Type", <<Plain("application/json")>>,
                                "User-Agent", <<Plain(c.user_agent)>>)
    IN  AddHeaders(<<>>, headers, KeysInOrder(c.auth_header, "Content-Type", "User-Agent"))

\* json.dumps raises TypeError on a value it cannot serialise.
IsJsonSerializable(params) == \A k \in DOMAIN params : params[k].t # "datetime"
JsonDumps(payload) == [json |-> payload]

\* ssl.SSLContext refuses verify_mode = CERT_NONE while check_hostname is set.
SetVerifyNone(ctx) ==
    IF ctx.check_hostname THEN [ctx EXCEPT !.error = "ValueError"]
    ELSE [ctx EXCEPT !.verify_mode = "CERT_NONE"]

\* A faulty variant of the TLS set-up: skipping hostname checks also drops verification.
ssl_context_ignore_drops_verify(c) ==
    LET created == [check_hostname |-> TRUE, verify_mode |-> "CERT_REQUIRED",
                    cafile |-> c.cafile,
                    error |-> IF c.cafile = "None" \/ c.cafile \in LoadableCaFiles
                              THEN "" ELSE "FileNotFoundError"]
        step1 == IF created.error = "" /\ c.insecure
                 THEN SetVerifyNone([created EXCEPT !.check_hostname = FALSE])
                 ELSE created
    IN  IF step1.error = "" /\ c.ignore_hostname_verification
        THEN SetVerifyNone([step1 EXCEPT !.check_hostname = FALSE])
        ELSE step1

\* Lines 154-160: the TLS context of one request, or the exception raised
\* while it is built.
ssl_context(c) ==
    LET created == [check_hostname |-> TRUE, verify_mode |-> "CERT_REQUIRED",
                    cafile |-> c.cafile,
                    error |-> IF c.cafile = "None" \/ c.cafile \in LoadableCaFiles
                              THEN "" ELSE "FileNotFoundError"]
        step1 == IF created.error = "" /\ c.insecure
                 THEN SetVerifyNone([created EXCEPT !.check_hostname = FALSE])
                 ELSE created
    IN  IF step1.error = "" /\ c.ignore_hostname_verification
        THEN [step1 EXCEPT !.check_hostname = FALSE]
        ELSE step1

NoRequest == [sent |-> FALSE]
NoContext == [used |-> FALSE]

\* A faulty variant of execute: the "Basic " prefix is always added.
build_request_always_basic(c, method, kwargs) ==
    [sent |-> TRUE, url |-> c.url,
     headers |-> (Capitalize(c.auth_header) :>
                     <<Plain("Basic "), B64Credentials(c.username, c.password)>>)
                 @@ RequestHeaders(c),
     data |-> JsonDumps([id |-> 1, jsonrpc |-> "2.0", method |-> method, params |-> kwargs])]

\* execute, lines 181-189, and line 152: the payload, the headers and the
\* Request object.
build_request(c, method, kwargs) ==
    [sent |-> TRUE, url |-> c.url, headers |-> RequestHeaders(c),
     data |-> JsonDumps([id |-> 1, jsonrpc |-> "2.0", method |-> method, params |-> kwargs])]

\* A faulty variant of _do_request: a failure to build the TLS context is retried
\* without the CA file.
begin_request_falls_back(c, method, kwargs) ==
    IF ~IsJsonSerializable(kwargs)
    THEN [posts |-> 0, request |-> NoRequest, context |-> NoContext,
          outcome |-> Raise("ClientError", PyStr("Object is not JSON serializable"))]
    ELSE [posts |-> IF ssl_context(c).error # "" THEN 2 ELSE 1,
          request |-> build_request(c, method, kwargs),
          context |-> [ssl_context(c) EXCEPT !.error = ""], outcome |-> NoOutcome]

\* execute and _do_request up to the point where urlopen blocks: either the
\* request is on its way (posts = 1), or an exception raised while building
\* the request or the TLS context has become a ClientError (posts = 0).
begin_request(c, method, kwargs) ==
    IF ~IsJsonSerializable(kwargs)
    THEN [posts |-> 0, request |-> NoRequest, context |-> NoContext,
          outcome |-> Raise("ClientError", PyStr("Object is not JSON serializable"))]
    ELSE IF ssl_context(c).error # ""
    THEN [posts |-> 0, request |-> NoRequest, context |-> NoContext,
          outcome |-> Raise("ClientError", PyStr(ssl_context(c).error))]
    ELSE [posts |-> 1, request |-> build_request(c, method, kwargs),
          context |-> ssl_context(c), outcome |-> NoOutcome]

\* What urlopen(...).read() can do: return the response bytes or raise.
TransportErrors == {"<urlopen error timed out>"}
Replies ==
    {[kind |-> "body", body |-> b, error |-> ""] : b \in Bodies}
        \cup {[kind |-> "error", body |-> Bytes(0, EmptyText), error |-> e] : e \in TransportErrors}
NoReply == [kind |-> "none", body |-> Bytes(0, EmptyText), error |-> ""]

\* _do_request from the return of urlopen on: lines 162-165.
finish_request(reply) ==
    IF reply.kind = "error"
    THEN Raise("ClientError", PyStr(reply.error))
    ELSE _parse_response(reply.body)

(***************************************************************************)
(* Invocations.  A call record follows one invocation of a client          *)
(* attribute from the call to the moment its outcome reaches the caller.   *)
(*   pc: "idle"        not invoked yet                                     *)
(*       "queued"      handed to run_in_executor, no worker has taken it   *)
(*       "urlopen"     execute is blocked in urlopen                       *)
(*       "worker_done" execute has ended on the worker, the future of the  *)
(*                     event loop is not yet resolved                      *)
(*       "done"        the caller has the result or the exception          *)
(***************************************************************************)
MethodNames == {<<"g","e","t","_","m","e">>}
AttrNames ==
    MethodNames
        \cup {n \o ASYNC_FUNCNAME_MARKER : n \in MethodNames}
        \cup {n \o ASYNC_FUNCNAME_MARKER \o ASYNC_FUNCNAME_MARKER : n \in MethodNames}

KwargsSets ==
    { <<>>,
      [name |-> PyStr("My project")],
      [method |-> PyStr("x")],
      [due |-> [t |-> "datetime"]] }

IdleCall ==
    [pc |-> "idle", name |-> <<>>, kwargs |-> <<>>, is_async |-> FALSE,
     method |-> <<>>, entered |-> FALSE, posts |-> 0, request |-> NoRequest,
     context |-> NoContext, reply |-> NoReply, outcome |-> NoOutcome]

\* Python binds execute(method=..., **kwargs): a "method" key in kwargs is a
\* second value for the parameter `method`, a TypeError of the callee named.
BindsTwice(kwargs) == "method" \in DOMAIN kwargs
MultipleValues(callee) ==
    Raise("TypeError", PyFStr(callee, " got multiple values for keyword argument 'method'"))

\* The call record once execute(method, **kwargs) has run to urlopen or failed.
Executing(call, method, kwargs, after) ==
    LET r == begin_request(cfg, method, kwargs)
    IN  [call EXCEPT !.method = method, !.entered = TRUE, !.posts = @ + r.posts,
                     !.request = r.request, !.context = r.context,
                     !.outcome = r.outcome,
                     !.pc = IF r.posts > 0 THEN "urlopen" ELSE after]

\* __getattr__, lines 117-118: the synchronous function, called.
SyncCall(c, name, kwargs) ==
    /\ calls[c].pc = "idle"
    /\ ~is_async_method_name(name)
    /\ LET started == [calls[c] EXCEPT !.name = name, !.kwargs = kwargs]
           now == IF BindsTwice(kwargs)
                  THEN [started EXCEPT !.pc = "done",
                            !.outcome = MultipleValues("kanboard.Client.execute()")]
                  ELSE Executing(started, _to_camel_case(name), kwargs, "done")
       IN  /\ calls' = [calls EXCEPT ![c] = now]
           /\ completed' = IF now.pc = "done" THEN Append(completed, c) ELSE completed
    /\ submitted' = Append(submitted, c)
    /\ UNCHANGED <<cfg, snake_str, camel, nameStep>>

\* __getattr__, lines 106-112: the coroutine function, called and awaited up
\* to run_in_executor.  self._event_loop is looked up first: on an instance
\* without that attribute __getattr__ answers with a synchronous function,
\* which has no run_in_executor.
AsyncCall(c, name, kwargs) ==
    /\ calls[c].pc = "idle"
    /\ is_async_method_name(name)
    /\ LET started == [calls[c] EXCEPT !.name = name, !.kwargs = kwargs, !.is_async = TRUE]
           now == IF cfg.event_loop = "unset"
                  THEN [started EXCEPT !.pc = "done",
                            !.outcome = Raise("AttributeError",
                                PyStr("'function' object has no attribute 'run_in_executor'"))]
                  ELSE IF BindsTwice(kwargs)
                  THEN [started EXCEPT !.pc = "done",
                            !.outcome = MultipleValues("functools.partial()")]
                  ELSE [started EXCEPT !.pc = "queued",
                            !.method = _to_camel_case(get_funcname_from_async_name(name))]
       IN  /\ calls' = [calls EXCEPT ![c] = now]
           /\ completed' = IF now.pc = "done" THEN Append(completed, c) ELSE completed
    /\ submitted' = Append(submitted, c)
    /\ UNCHANGED <<cfg, snake_str, camel, nameStep>>

\* A worker of the executor takes the partial and runs execute.
WorkerRun(c) ==
    /\ calls[c].pc = "queued"
    /\ calls' = [calls EXCEPT ![c] =
                    Executing(calls[c], calls[c].method, calls[c].kwargs, "worker_done")]
    /\ UNCHANGED <<cfg, submitted, completed, snake_str, camel, nameStep>>

\* urlopen(...).read() returns or raises; _do_request ends.
UrlopenReturn(c, reply) ==
    /\ calls[c].pc = "urlopen"
    /\ calls' = [calls EXCEPT ![c].reply = reply,
                              ![c].outcome = finish_request(reply),
                              ![c].pc = IF calls[c].is_async THEN "worker_done" ELSE "done"]
    /\ completed' = IF calls[c].is_async THEN completed ELSE Append(completed, c)
    /\ UNCHANGED <<cfg, submitted, snake_str, camel, nameStep>>

\* The event loop resolves the future of run_in_executor; the coroutine resumes.
FutureResolve(c) ==
    /\ calls[c].pc = "worker_done"
    /\ calls' = [calls EXCEPT ![c].pc = "done"]
    /\ completed' = Append(completed, c)
    /\ UNCHANGED <<cfg, submitted, snake_str, camel, nameStep>>

Next ==
    \/ \E c \in DOMAIN calls, name \in AttrNames, kwargs \in KwargsSets : SyncCall(c, name, kwargs)
    \/ \E c \in DOMAIN calls, name \in AttrNames, kwargs \in KwargsSets : AsyncCall(c, name, kwargs)
    \/ \E c \in DOMAIN calls : WorkerRun(c)
    \/ \E c \in DOMAIN calls, reply \in Replies : UrlopenReturn(c, reply)
    \/ \E c \in DOMAIN calls : FutureResolve(c)

(***************************************************************************)
(* Direct calls of _to_camel_case.                                         *)
(***************************************************************************)
NameAlphabet == {"a", "B", "_", "2"}
Identifiers == UNION {[1..n -> NameAlphabet] : n \in 0..MaxNameLen}

Convert ==
    /\ nameStep = "input"
    /\ camel' = _to_camel_case(snake_str)
    /\ nameStep' = "converted"
    /\ UNCHANGED <<cfg, calls, submitted, completed, snake_str>>

Reconvert ==
    /\ nameStep = "converted"
    /\ camel' = _to_camel_case(camel)
    /\ nameStep' = "reconverted"
    /\ UNCHANGED <<cfg, calls, submitted, completed, snake_str>>

NextName == Convert \/ Reconvert

(***************************************************************************)
(* Specifications.                                                         *)
(***************************************************************************)
DefaultClient(loop) ==
    __init__("https://kanboard.example/jsonrpc.php", "jsonrpc", "token",
             DEFAULT_AUTH_HEADER, "None", FALSE, FALSE, "Kanboard Python API Client", loop)

AllClients ==
    { __init__(url, username, password, auth_header, cafile, insecure, ignore, user_agent, loop) :
        url \in Urls, username \in Usernames, password \in Passwords,
        auth_header \in AuthHeaderNames, cafile \in CaFiles, insecure \in BOOLEAN,
        ignore \in BOOLEAN, user_agent \in UserAgents, loop \in LoopArgs }

NoNames ==
    /\ snake_str = <<>>
    /\ camel = <<>>
    /\ nameStep = "input"

\* Concurrent invocations on a default client, with and without a supplied loop.
Init ==
    /\ cfg \in {DefaultClient(loop) : loop \in LoopArgs}
    /\ calls = [c \in 1..MaxCalls |-> IdleCall]
    /\ submitted = <<>>
    /\ completed = <<>>
    /\ NoNames

Spec == Init /\ [][Next]_vars

\* The workers and the event loop keep running; urlopen returns or raises.
FairSpec ==
    /\ Spec
    /\ \A c \in 1..MaxCalls :
        /\ WF_vars(WorkerRun(c))
        /\ WF_vars(\E reply \in Replies : UrlopenReturn(c, reply))
        /\ WF_vars(FutureResolve(c))

\* One invocation on every client configuration.
InitRequest ==
    /\ cfg \in AllClients
    /\ calls = [c \in {1} |-> IdleCall]
    /\ submitted = <<>>
    /\ completed = <<>>
    /\ NoNames

SpecRequest == InitRequest /\ [][Next]_vars

\* _to_camel_case on every identifier of the alphabet up to MaxNameLen.
InitName ==
    /\ cfg = DefaultClient("None")
    /\ calls = <<>>
    /\ submitted = <<>>
    /\ completed = <<>>
    /\ snake_str \in Identifiers
    /\ camel = <<>>
    /\ nameStep = "input"

SpecName == InitName /\ [][NextName]_vars

(***************************************************************************)
(* Properties.                                                             *)
(***************************************************************************)
CallIds == DOMAIN calls
Ended(c) == calls[c].pc = "done"
IsClientError(outcome) == outcome.kind = "raise" /\ outcome.exc = "ClientError"

\* The wire name the resolver of section 4.1 gives an attribute name.
WireNameOf(name) ==
    IF is_async_method_name(name)
    THEN _to_camel_case(get_funcname_from_async_name(name))
    ELSE _to_camel_case(name)

\* C1: on a client constructed without a supplied loop, the awaited attribute
\* N + "_async" sends the same request and ends with the same result or the
\* same error message as the synchronous attribute N, for the same keyword
\* arguments and the same answer of the transport.
C1_SyncAsyncSame ==
    cfg.event_loop # "unset" =>
        \A i \in CallIds, j \in CallIds :
            ( /\ Ended(i) /\ Ended(j)
              /\ ~calls[i].is_async
              /\ calls[j].name = calls[i].name \o ASYNC_FUNCNAME_MARKER
              /\ calls[j].kwargs = calls[i].kwargs
              /\ calls[j].reply = calls[i].reply )
            => ( /\ calls[j].request = calls[i].request
                 /\ calls[j].outcome = calls[i].outcome )

\* C2: every call of execute ends by returning a value or by raising a
\* ClientError; no other exception reaches the caller.
C2_ResultOrClientError ==
    \A c \in CallIds :
        (Ended(c) /\ calls[c].entered)
        => (calls[c].outcome.kind = "return" \/ IsClientError(calls[c].outcome))

\* C3: on a client constructed with a supplied loop, an asynchronous call runs
\* the synchronous executor and ends as the synchronous call would: with its
\* result or its ClientError.
C3_SuppliedLoopRunsExecute ==
    cfg.event_loop = "unset" =>
        \A c \in CallIds :
            (Ended(c) /\ calls[c].is_async /\ ~BindsTwice(calls[c].kwargs))
            => ( /\ calls[c].entered
                 /\ calls[c].outcome.kind = "return" \/ IsClientError(calls[c].outcome) )

\* An invocation whose request nothing in the environment keeps from being
\* built: the arguments serialise, the CA file loads, the loop attribute exists.
CanBuild(c) ==
    /\ IsJsonSerializable(calls[c].kwargs)
    /\ ssl_context(cfg).error = ""
    /\ calls[c].is_async => cfg.event_loop # "unset"

\* C4: whatever the keys of the keyword arguments are ("method" included), the
\* request that is sent has params equal to exactly that mapping, id 1,
\* jsonrpc "2.0" and the wire name as method.
C4_ParamsVerbatim ==
    \A c \in CallIds :
        (Ended(c) /\ CanBuild(c))
        => ( /\ calls[c].request.sent
             /\ calls[c].request.data =
                    JsonDumps([id |-> 1, jsonrpc |-> "2.0",
                               method |-> WireNameOf(calls[c].name),
                               params |-> calls[c].kwargs]) )

\* What C5 says the parse of a decoded body gives, where it says something.
ClaimedParse(outcome, body) ==
    CASE IsEmptyBytes(body) ->
            outcome = Raise("ClientError", PyStr("Empty response from server"))
      [] body.invalid = 0 /\ body.text.kind = "garbage" ->
            /\ IsClientError(outcome)
            /\ outcome.value.t = "string"
            /\ outcome.value.v = "Failed to parse JSON response: "
      [] body.invalid = 0 /\ body.text.kind = "json" /\ body.text.v.t = "object" ->
            IF "error" \in DOMAIN body.text.v.v
            THEN /\ IsClientError(outcome)
                 /\ body.text.v.v["error"].t = "object"
                        => outcome.value = DictGet(body.text.v.v["error"], "message")
            ELSE outcome = Return(DictGet(body.text.v, "result"))
      [] OTHER -> TRUE

\* C5: the outcome of parsing is a function of the body alone: the empty body
\* and the body that is not JSON fail with their ClientError, a JSON object
\* with an "error" member fails with a ClientError carrying error.message, and
\* every other JSON object returns its "result" member.
C5_ParseByBody ==
    \A c \in CallIds :
        (calls[c].reply.kind = "body" /\ calls[c].pc \in {"worker_done", "done"})
        => ClaimedParse(calls[c].outcome, calls[c].reply.body)

\* The reference transform of C6: the first segment unchanged, the first
\* letter of each later segment upper-cased, the rest of it unchanged.
UpperFirst(x) == IF x = <<>> THEN <<>> ELSE <<ToUpper(x[1])>> \o Tail(x)
Reference(s) ==
    LET components == Split(s, "_")
        rest == Tail(components)
    IN  components[1] \o Join([i \in DOMAIN rest |-> UpperFirst(rest[i])])

\* A later segment on which title-casing is upper-casing the first letter:
\* after its first character every letter is lower-case and follows a letter.
PlainSegment(x) ==
    \A i \in 2..Len(x) : IsCased(x[i]) => (IsLower(x[i]) /\ IsCased(x[i - 1]))
PlainSegments(s) ==
    LET rest == Tail(Split(s, "_")) IN \A i \in DOMAIN rest : PlainSegment(rest[i])

\* C6 as stated: for every identifier the wire name is the reference
\* transform, a single-segment name passes through unchanged, and the
\* transform applied to its own output changes nothing.
C6_ReferenceForEveryIdentifier ==
    /\ nameStep = "converted" => camel = Reference(snake_str)
    /\ (nameStep = "converted" /\ Len(Split(snake_str, "_")) = 1) => camel = snake_str
    /\ nameStep = "reconverted" => camel = Reference(snake_str)

\* C6 as amended: the wire name is the reference transform for every
\* identifier whose later segments are plain; for every identifier a
\* single-segment name passes through unchanged and the transform applied to
\* its own output changes nothing.
C6_ReferenceForPlainSegments ==
    /\ (nameStep = "converted" /\ PlainSegments(snake_str)) => camel = Reference(snake_str)
    /\ (nameStep = "converted" /\ Len(Split(snake_str, "_")) = 1) => camel = snake_str
    /\ nameStep = "reconverted" => camel = _to_camel_case(snake_str)
    /\ (nameStep = "reconverted" /\ PlainSegments(snake_str)) => camel = Reference(snake_str)

C6_Witness ==
    /\ nameStep = "reconverted"
    /\ PlainSegments(snake_str)
    /\ Len(Split(snake_str, "_")) = 2
    /\ camel # snake_str
    /\ \E i \in DOMAIN camel : IsUpper(camel[i]) /\ ~IsUpper(snake_str[i + 1])

\* The header of the request that HTTP knows by `name`.
Header(request, name) == request.headers[Capitalize(name)]
HasHeader(request, name) == Capitalize(name) \in DOMAIN request.headers

\* The value C7 gives the authentication header.
ClaimedAuthValue ==
    IF cfg.auth_header = "Authorization"
    THEN <<Plain("Basic "), B64Credentials(cfg.username, cfg.password)>>
    ELSE <<B64Credentials(cfg.username, cfg.password)>>

ThreeHeaders(request) ==
    /\ Cardinality(DOMAIN request.headers) = 3
    /\ HasHeader(request, "Content-Type")
    /\ Header(request, "Content-Type") = <<Plain("application/json")>>
    /\ HasHeader(request, "User-Agent")
    /\ Header(request, "User-Agent") = <<Plain(cfg.user_agent)>>
    /\ HasHeader(request, cfg.auth_header)
    /\ Header(request, cfg.auth_header) = ClaimedAuthValue

\* C7 as stated: for every auth header name, username and password the request
\* carries Content-Type, User-Agent and the authentication header, whose value
\* is "Basic " + base64(username:password) under the name "Authorization" and
\* the bare base64 string under any other name.
C7_ThreeHeadersForEveryName ==
    \A c \in CallIds : calls[c].request.sent => ThreeHeaders(calls[c].request)

\* The auth header name is, letter case aside, the name of a standard header.
ShadowedAuthHeader ==
    Capitalize(cfg.auth_header) \in {Capitalize("Content-Type"), Capitalize("User-Agent")}

\* C7 as amended: the same for every auth header name that differs, letter
\* case aside, from Content-Type and User-Agent; under one of those two names
\* the request carries two headers with the standard values and no credentials.
C7_ThreeHeadersUnlessShadowed ==
    \A c \in CallIds :
        calls[c].request.sent =>
            IF ShadowedAuthHeader
            THEN /\ Cardinality(DOMAIN calls[c].request.headers) = 2
                 /\ Header(calls[c].request, "Content-Type") = <<Plain("application/json")>>
                 /\ Header(calls[c].request, "User-Agent") = <<Plain(cfg.user_agent)>>
            ELSE ThreeHeaders(calls[c].request)

C7_Witness ==
    \E c \in CallIds :
        /\ calls[c].request.sent
        /\ cfg.auth_header = "X-API-Auth"
        /\ cfg.username = "admin"
        /\ cfg.password = "secret"
        /\ Header(calls[c].request, "X-API-Auth") = <<B64Credentials("admin", "secret")>>

\* C8: the TLS context of the POST has certificate verification off exactly
\* when insecure is set and hostname checking off exactly when insecure or
\* ignore_hostname_verification is set.
C8_TlsFlags ==
    \A c \in CallIds :
        calls[c].posts > 0 =>
            /\ (calls[c].context.verify_mode = "CERT_NONE") <=> cfg.insecure
            /\ (~calls[c].context.check_hostname)
                    <=> (cfg.insecure \/ cfg.ignore_hostname_verification)

C8_Witness ==
    \E c \in CallIds :
        /\ calls[c].posts > 0
        /\ ~cfg.insecure
        /\ cfg.ignore_hostname_verification
        /\ calls[c].context.verify_mode = "CERT_REQUIRED"
        /\ ~calls[c].context.check_hostname

\* C9 as stated: every call of execute with parameters that serialise to JSON,
\* whatever its outcome, has performed exactly one POST, never a second one,
\* and its outcome is returned or raised.
C9_ExactlyOnePost ==
    \A c \in CallIds :
        /\ calls[c].posts <= 1
        /\ ( /\ calls[c].entered
              /\ calls[c].pc \in {"urlopen", "worker_done", "done"}
              /\ IsJsonSerializable(calls[c].kwargs) )
                => calls[c].posts = 1
        /\ Ended(c) => calls[c].outcome.kind # "none"

\* C9 as amended: every call of execute performs at most one POST: exactly one
\* when the request and the TLS context could be built, none when building
\* them failed, which raises a ClientError; the request is never sent a second
\* time and every outcome is returned or raised.
C9_OnePostIfBuilt ==
    \A c \in CallIds :
        /\ calls[c].posts <= 1
        /\ (calls[c].entered /\ calls[c].pc \in {"urlopen", "worker_done", "done"})
                => IF IsJsonSerializable(calls[c].kwargs) /\ ssl_context(cfg).error = ""
                   THEN calls[c].posts = 1 /\ calls[c].request.sent
                   ELSE /\ calls[c].posts = 0
                        /\ ~calls[c].request.sent
                        /\ IsClientError(calls[c].outcome)
        /\ Ended(c) => calls[c].outcome.kind # "none"

C9_Witness ==
    \E c \in CallIds :
        /\ Ended(c)
        /\ calls[c].is_async
        /\ calls[c].posts = 1
        /\ calls[c].reply.kind = "error"
        /\ IsClientError(calls[c].outcome)

\* C10: the awaitable of an asynchronous call resolves only after that call's
\* own execute has run to completion on a worker.
C10_ResolvesAfterExecute ==
    \A c \in CallIds :
        (Ended(c) /\ calls[c].is_async /\ ~BindsTwice(calls[c].kwargs))
        => calls[c].entered

\* C10 for the calls that reach run_in_executor: they end only after execute.
C10_SubmittedResolveAfterExecute ==
    \A c \in CallIds :
        (Ended(c) /\ calls[c].is_async /\ cfg.event_loop # "unset"
            /\ ~BindsTwice(calls[c].kwargs))
        => (calls[c].entered /\ calls[c].outcome.kind # "none")

\* C10: no step changes the client configuration.
C10_ConfigImmutable == [][cfg' = cfg]_vars

\* C10: a submitted call resolves (the transport answers under FairSpec).
C10_SubmittedResolves ==
    \A c \in 1..MaxCalls : (calls[c].pc = "queued") ~> (calls[c].pc = "done")

\* C10: results may arrive in another order than the calls were submitted.
C10_OutOfOrder ==
    /\ Len(submitted) = 2 /\ Len(completed) = 2
    /\ completed # submitted
    /\ \A c \in CallIds : calls[c].is_async /\ calls[c].posts = 1

====
